---- MODULE Spec2Model ----
(***************************************************************************)
(* RC4 stream cipher of the rc4 crate (src/rc4/src/lib.rs): key           *)
(* scheduling (Rc4::new), keystream generation (Rc4::prga_next), in-place *)
(* keystream application (Rc4::apply_keystream) and the one-shot entry    *)
(* point (Rc4::apply_keystream_static).                                   *)
(*                                                                         *)
(* Tables are functions on 0..255 (Rust's [u8; 256], indexed from 0);     *)
(* keys and buffers are sequences (indexed from 1, so the code's key[n]   *)
(* is key[n + 1] here).  u8 arithmetic is arithmetic modulo 256.          *)
(***************************************************************************)
EXTENDS Naturals, Sequences, FiniteSets

VARIABLES
  key,      \* the key of the session
  data,     \* the caller's buffer, changed in place
  orig,     \* history: the buffer as it was at the start
  outcome,  \* "none", "ok" (a call returned) or "panic" (assert! failed)
  ncalls,   \* history: calls of apply_keystream_static made so far
  rc4,      \* an Rc4 object (NoRc4 while there is none)
  other,    \* a second Rc4 object, built from the same key
  ks,       \* history: the bytes prga_next returned on rc4
  pos,      \* bytes of data already passed through apply_keystream
  nprga,    \* history: calls of prga_next made by apply_keystream
  ksa,      \* the locals i and j of the scheduling loop of Rc4::new
  pc        \* where the session is

vars == <<key, data, orig, outcome, ncalls, rc4, other, ks, pos, nprga, ksa, pc>>

-----------------------------------------------------------------------------
(* Bounds of the model                                                     *)

MaxBufLen == 2
MaxCalls == 2
MaxChunk == 2
MaxPrga == 3
KatExtra == 1

-----------------------------------------------------------------------------
(* Program constants                                                       *)

TableSize == 256
MinKeyLen == 5
MaxKeyLen == 256
KatLen == 4112

Byte == 0 .. (TableSize - 1)

-----------------------------------------------------------------------------
(* u8 arithmetic                                                           *)

(* Variant: the sum stops at 255 instead of wrapping. *)
saturating_add(a, b) == IF a + b >= TableSize THEN TableSize - 1 ELSE a + b

wrapping_add(a, b) == (a + b) % TableSize

RECURSIVE XorBits(_, _, _)
XorBits(a, b, n) ==
  IF n = 0 THEN 0
  ELSE (((a % 2) + (b % 2)) % 2) + 2 * XorBits(a \div 2, b \div 2, n - 1)

(* Variant: the keystream byte is added, not XORed. *)
XorAsAdd(a, b) == (a + b) % TableSize

Xor(a, b) == XorBits(a, b, 8)

(* Variant: s[a] is overwritten with s[b], s[b] is left as it was. *)
swapOverwrite(s, a, b) == [s EXCEPT ![a] = s[b]]

swap(s, a, b) == [s EXCEPT ![a] = s[b], ![b] = s[a]]

-----------------------------------------------------------------------------
(* Rc4::new                                                                *)

NoRc4 == [s |-> <<>>, i |-> 0, j |-> 0]
NoKsa == [i |-> 0, j |-> 0]

Identity == [n \in Byte |-> n]

(* Variant: the lower limit is strict. *)
ValidKeyLenOffByOne(k) == MinKeyLen < Len(k) /\ Len(k) <= MaxKeyLen

ValidKeyLen(k) == MinKeyLen <= Len(k) /\ Len(k) <= MaxKeyLen

(* One iteration of the scheduling loop, on the table s and the loop's     *)
(* scratch j: the new j, and the table with s[i] and s[j] swapped.         *)
KsaStep(s, j, k, i) ==
  LET j2 == wrapping_add(wrapping_add(j, s[i]), k[(i % Len(k)) + 1])
  IN  [s |-> swap(s, i, j2), j |-> j2]

(* Iterations lo .. hi-1 of the scheduling loop, in ascending order.  The  *)
(* range is split in two so that the evaluation nests only                 *)
(* logarithmically.  The guard always holds (j is a byte); it has the      *)
(* lower half evaluated before the upper half starts, as the loop does.    *)
RECURSIVE KsaLoop(_, _, _, _)
KsaLoop(st, k, lo, hi) ==
  IF hi <= lo THEN st
  ELSE IF hi = lo + 1 THEN KsaStep(st.s, st.j, k, lo)
  ELSE LET mid == (lo + hi) \div 2
           low == KsaLoop(st, k, lo, mid)
       IN  IF low.j \in Byte THEN KsaLoop(low, k, mid, hi) ELSE low

(* Variant: the scheduling loop's j is left in the object's cursor j. *)
newKeepJ(k) ==
  IF ~ValidKeyLen(k) THEN [ok |-> FALSE, rc4 |-> NoRc4]
  ELSE LET st == KsaLoop([s |-> Identity, j |-> 0], k, 0, TableSize)
       IN  [ok |-> TRUE, rc4 |-> [s |-> st.s, i |-> 0, j |-> st.j]]

(* ok is FALSE when the assert! on the key length fails (a panic: no       *)
(* object is returned).                                                    *)
new(k) ==
  IF ~ValidKeyLen(k) THEN [ok |-> FALSE, rc4 |-> NoRc4]
  ELSE LET st == KsaLoop([s |-> Identity, j |-> 0], k, 0, TableSize)
       IN  [ok |-> TRUE, rc4 |-> [s |-> st.s, i |-> 0, j |-> 0]]

-----------------------------------------------------------------------------
(* Rc4::prga_next: the object after the call and the byte it returns       *)

(* Variant: j is advanced by the entry at the old i. *)
prga_nextStaleJ(self) ==
  LET j == wrapping_add(self.j, self.s[self.i])
      i == wrapping_add(self.i, 1)
      s == swap(self.s, i, j)
  IN  [rc4 |-> [s |-> s, i |-> i, j |-> j],
       k |-> s[wrapping_add(s[i], s[j])]]

prga_next(self) ==
  LET i == wrapping_add(self.i, 1)
      j == wrapping_add(self.j, self.s[i])
      s == swap(self.s, i, j)
  IN  [rc4 |-> [s |-> s, i |-> i, j |-> j],
       k |-> s[wrapping_add(s[i], s[j])]]

-----------------------------------------------------------------------------
(* Rc4::apply_keystream                                                    *)

(* Variant: the byte read from the buffer is fed back into cursor j. *)
ApplyStepFeedback(st, n) ==
  LET r == prga_next(st.rc4)
  IN  [rc4 |-> [r.rc4 EXCEPT !.j = wrapping_add(@, st.data[n])],
       data |-> [st.data EXCEPT ![n] = Xor(@, r.k)],
       calls |-> st.calls + 1]

(* Variant: a zero byte is skipped without a call of prga_next. *)
ApplyStepSkipZero(st, n) ==
  IF st.data[n] = 0 THEN st
  ELSE LET r == prga_next(st.rc4)
       IN  [rc4 |-> r.rc4,
            data |-> [st.data EXCEPT ![n] = Xor(@, r.k)],
            calls |-> st.calls + 1]

(* One iteration of the loop over the buffer, on byte n of it.  calls is   *)
(* history: the calls of prga_next made by the loop so far.                *)
ApplyStep(st, n) ==
  LET r == prga_next(st.rc4)
  IN  [rc4 |-> r.rc4,
       data |-> [st.data EXCEPT ![n] = Xor(@, r.k)],
       calls |-> st.calls + 1]

(* Iterations lo .. hi of the loop over the buffer, in ascending order,    *)
(* split like KsaLoop (its guard always holds too).                        *)
RECURSIVE ApplyLoop(_, _, _)
ApplyLoop(st, lo, hi) ==
  IF hi < lo THEN st
  ELSE IF hi = lo THEN ApplyStep(st, lo)
  ELSE LET mid == (lo + hi) \div 2
           low == ApplyLoop(st, lo, mid)
       IN  IF low.calls \in Nat THEN ApplyLoop(low, mid + 1, hi) ELSE low

(* Variant: every call starts with both cursors back at 0. *)
apply_keystreamRestart(self, d) ==
  ApplyLoop([rc4 |-> [self EXCEPT !.i = 0, !.j = 0], data |-> d, calls |-> 0],
            1, Len(d))

apply_keystream(self, d) ==
  ApplyLoop([rc4 |-> self, data |-> d, calls |-> 0], 1, Len(d))

-----------------------------------------------------------------------------
(* Rc4::apply_keystream_static: the outcome of the call and the buffer     *)
(* after it.  The object is a local of the call and is dropped.            *)

apply_keystream_static(k, d) ==
  LET r == new(k)
  IN  IF ~r.ok THEN [outcome |-> "panic", data |-> d]
      ELSE [outcome |-> "ok", data |-> apply_keystream(r.rc4, d).data]

-----------------------------------------------------------------------------
(* Inputs                                                                  *)

(* The keys and buffers of the crate's tests. *)
TestKey == <<75, 142, 41, 135, 128, 149, 150, 163,
             187, 35, 130, 73, 159, 28, 231, 194>>
TestPlaintext == <<72, 101, 108, 108, 111, 32, 87, 111, 114, 108, 100, 33>>
KatKey == <<1, 2, 3, 4, 5>>
CliKey == <<75, 142, 41, 135, 128>>

(* Keys n |-> b + n - 1 (mod 256) of every length around the two limits. *)
PatKey(len, b) == [n \in 1 .. len |-> (b + n - 1) % TableSize]
KeyLens == {0, MinKeyLen - 1, MinKeyLen, MinKeyLen + 1,
            MaxKeyLen - 1, MaxKeyLen, MaxKeyLen + 1}
KeyBases == {1, 111}
Keys == {TestKey, KatKey, CliKey}
          \cup {PatKey(len, b) : len \in KeyLens, b \in KeyBases}

BufBytes == {0, 1, 72, 255}
RECURSIVE SeqsUpTo(_, _)
SeqsUpTo(S, n) ==
  IF n = 0 THEN {<<>>}
  ELSE LET shorter == SeqsUpTo(S, n - 1)
       IN  shorter \cup {Append(q, b) : q \in {p \in shorter : Len(p) = n - 1},
                                        b \in S}
Buffers == SeqsUpTo(BufBytes, MaxBufLen) \cup {TestPlaintext}

Zeros(n) == [m \in 1 .. n |-> 0]
KatBuffers == {Zeros(KatLen + e) : e \in 0 .. KatExtra}

(* The windows of tests::ietf_40_bit_key_official_test_vectors. *)
KatVectors == {
  [offset |-> 0,
   bytes |-> <<178, 57, 99, 5, 240, 61, 192, 39, 204, 195, 82, 74, 10, 17, 24, 168>>],
  [offset |-> 16,
   bytes |-> <<105, 130, 148, 79, 24, 252, 130, 213, 137, 196, 3, 164, 122, 13, 9, 25>>],
  [offset |-> 240,
   bytes |-> <<40, 203, 17, 50, 201, 108, 226, 134, 66, 29, 202, 173, 184, 182, 158, 174>>],
  [offset |-> 256,
   bytes |-> <<28, 252, 246, 43, 3, 237, 219, 100, 29, 119, 223, 207, 127, 141, 140, 147>>],
  [offset |-> 496,
   bytes |-> <<66, 183, 208, 205, 217, 24, 168, 163, 61, 213, 23, 129, 200, 31, 64, 65>>],
  [offset |-> 512,
   bytes |-> <<100, 89, 132, 68, 50, 167, 218, 146, 60, 251, 62, 180, 152, 6, 97, 246>>],
  [offset |-> 752,
   bytes |-> <<236, 16, 50, 123, 222, 43, 238, 253, 24, 249, 39, 118, 128, 69, 126, 34>>],
  [offset |-> 768,
   bytes |-> <<235, 98, 99, 141, 79, 11, 161, 254, 159, 202, 32, 224, 91, 248, 255, 43>>],
  [offset |-> 1008,
   bytes |-> <<69, 18, 144, 72, 230, 160, 237, 11, 86, 180, 144, 51, 143, 7, 141, 165>>],
  [offset |-> 1024,
   bytes |-> <<48, 171, 188, 199, 194, 11, 1, 96, 159, 35, 238, 45, 95, 107, 183, 223>>],
  [offset |-> 1520,
   bytes |-> <<50, 148, 247, 68, 216, 249, 121, 5, 7, 231, 15, 98, 229, 187, 206, 234>>],
  [offset |-> 1536,
   bytes |-> <<216, 114, 157, 180, 24, 130, 37, 155, 238, 79, 130, 83, 37, 245, 161, 48>>],
  [offset |-> 2032,
   bytes |-> <<30, 177, 74, 12, 19, 179, 191, 71, 250, 42, 11, 169, 58, 212, 91, 139>>],
  [offset |-> 2048,
   bytes |-> <<204, 88, 47, 139, 169, 242, 101, 226, 177, 190, 145, 18, 233, 117, 210, 215>>],
  [offset |-> 3056,
   bytes |-> <<242, 227, 15, 155, 209, 2, 236, 191, 117, 170, 173, 233, 188, 53, 196, 60>>],
  [offset |-> 3072,
   bytes |-> <<236, 14, 17, 196, 121, 220, 50, 157, 200, 218, 121, 104, 254, 150, 86, 129>>],
  [offset |-> 4080,
   bytes |-> <<6, 131, 38, 162, 17, 132, 22, 210, 31, 157, 4, 178, 205, 28, 160, 80>>],
  [offset |-> 4096,
   bytes |-> <<255, 37, 181, 137, 149, 153, 103, 7, 229, 31, 189, 240, 139, 52, 216, 117>>]}

-----------------------------------------------------------------------------
(* Sessions of the one-shot entry point: apply_keystream_static is called  *)
(* on the same key and buffer up to MaxCalls times.  A panic ends the      *)
(* session.                                                                *)

Init ==
  /\ \/ key \in Keys /\ data \in Buffers
     \/ key = KatKey /\ data \in KatBuffers
  /\ orig = data
  /\ outcome = "none"
  /\ ncalls = 0
  /\ rc4 = NoRc4
  /\ other = NoRc4
  /\ ks = <<>>
  /\ pos = 0
  /\ nprga = 0
  /\ ksa = NoKsa
  /\ pc = "static"

StaticCall ==
  /\ pc = "static"
  /\ outcome # "panic"
  /\ ncalls < MaxCalls
  /\ LET r == apply_keystream_static(key, data)
     IN  /\ data' = r.data
         /\ outcome' = r.outcome
  /\ ncalls' = ncalls + 1
  /\ UNCHANGED <<key, orig, rc4, other, ks, pos, nprga, ksa, pc>>

Next == StaticCall

Spec == Init /\ [][Next]_vars

-----------------------------------------------------------------------------
(* One call of apply_keystream_static, loop iteration by loop iteration:   *)
(* the assert! and the identity table, the 256 iterations of the           *)
(* scheduling loop, the return of the object, one iteration of             *)
(* apply_keystream's loop per byte, the return.                            *)

PatBuf(len) == [n \in 1 .. len |-> n % TableSize]
StepKeys == {TestKey, KatKey, PatKey(MinKeyLen, 111), PatKey(MaxKeyLen, 1),
             PatKey(MinKeyLen - 1, 1)}
StepBuffers == {<<>>, <<0>>, TestPlaintext}
                 \cup {PatBuf(TableSize - 1 + e) : e \in 0 .. MaxBufLen}

InitSteps ==
  /\ key \in StepKeys
  /\ data \in StepBuffers
  /\ orig = data
  /\ outcome = "none"
  /\ ncalls = 0
  /\ rc4 = NoRc4
  /\ other = NoRc4
  /\ ks = <<>>
  /\ pos = 0
  /\ nprga = 0
  /\ ksa = NoKsa
  /\ pc = "call"

Enter ==
  /\ pc = "call"
  /\ IF ValidKeyLen(key)
       THEN /\ rc4' = [s |-> Identity, i |-> 0, j |-> 0]
            /\ ksa' = [i |-> 0, j |-> 0]
            /\ pc' = "ksa"
            /\ UNCHANGED outcome
       ELSE /\ outcome' = "panic"
            /\ pc' = "panicked"
            /\ UNCHANGED <<rc4, ksa>>
  /\ UNCHANGED <<key, data, orig, ncalls, other, ks, pos, nprga>>

KsaIter ==
  /\ pc = "ksa"
  /\ ksa.i < TableSize
  /\ LET r == KsaStep(rc4.s, ksa.j, key, ksa.i)
     IN  /\ rc4' = [rc4 EXCEPT !.s = r.s]
         /\ ksa' = [i |-> ksa.i + 1, j |-> r.j]
  /\ UNCHANGED <<key, data, orig, outcome, ncalls, other, ks, pos, nprga, pc>>

KsaReturn ==
  /\ pc = "ksa"
  /\ ksa.i = TableSize
  /\ pc' = "apply"
  /\ UNCHANGED <<key, data, orig, outcome, ncalls, rc4, other, ks, pos, nprga,
                 ksa>>

ApplyIter ==
  /\ pc = "apply"
  /\ pos < Len(data)
  /\ LET r == ApplyStep([rc4 |-> rc4, data |-> data, calls |-> nprga], pos + 1)
     IN  /\ rc4' = r.rc4
         /\ data' = r.data
         /\ nprga' = r.calls
  /\ ks' = Append(ks, prga_next(rc4).k)
  /\ pos' = pos + 1
  /\ UNCHANGED <<key, orig, outcome, ncalls, other, ksa, pc>>

ApplyReturn ==
  /\ pc = "apply"
  /\ pos = Len(data)
  /\ pc' = "done"
  /\ outcome' = "ok"
  /\ UNCHANGED <<key, data, orig, ncalls, rc4, other, ks, pos, nprga, ksa>>

NextSteps == Enter \/ KsaIter \/ KsaReturn \/ ApplyIter \/ ApplyReturn

SpecSteps == InitSteps /\ [][NextSteps]_vars

-----------------------------------------------------------------------------
(* Two Rc4 objects built from the same key.  prga_next is called on the    *)
(* first, up to MaxPrga times; apply_keystream is called on the second,    *)
(* on consecutive chunks of the buffer of 0 .. MaxChunk bytes each.        *)

ObjKeys == {TestKey, KatKey, CliKey, PatKey(MinKeyLen, 111),
            PatKey(MaxKeyLen, 1), PatKey(MaxKeyLen + 1, 1)}

InitObj ==
  /\ key \in ObjKeys
  /\ data \in Buffers
  /\ orig = data
  /\ outcome = "none"
  /\ ncalls = 0
  /\ rc4 = NoRc4
  /\ other = NoRc4
  /\ ks = <<>>
  /\ pos = 0
  /\ nprga = 0
  /\ ksa = NoKsa
  /\ pc = "obj"

NewObj ==
  /\ pc = "obj"
  /\ outcome # "panic"
  /\ rc4 = NoRc4
  /\ LET r == new(key)
     IN  IF r.ok THEN rc4' = r.rc4 /\ UNCHANGED outcome
                 ELSE outcome' = "panic" /\ UNCHANGED rc4
  /\ UNCHANGED <<key, data, orig, ncalls, other, ks, pos, nprga, ksa, pc>>

NewOther ==
  /\ pc = "obj"
  /\ outcome # "panic"
  /\ other = NoRc4
  /\ LET r == new(key)
     IN  IF r.ok THEN other' = r.rc4 /\ UNCHANGED outcome
                 ELSE outcome' = "panic" /\ UNCHANGED other
  /\ UNCHANGED <<key, data, orig, ncalls, rc4, ks, pos, nprga, ksa, pc>>

PrgaNext ==
  /\ pc = "obj"
  /\ rc4 # NoRc4
  /\ Len(ks) < MaxPrga
  /\ LET r == prga_next(rc4)
     IN  /\ rc4' = r.rc4
         /\ ks' = Append(ks, r.k)
  /\ UNCHANGED <<key, data, orig, outcome, ncalls, other, pos, nprga, ksa, pc>>

ApplyChunk ==
  /\ pc = "obj"
  /\ other # NoRc4
  /\ \E c \in 0 .. MaxChunk :
       /\ pos + c <= Len(data)
       /\ LET r == apply_keystream(other, SubSeq(data, pos + 1, pos + c))
          IN  /\ other' = r.rc4
              /\ data' = SubSeq(data, 1, pos) \o r.data
                           \o SubSeq(data, pos + c + 1, Len(data))
              /\ nprga' = nprga + r.calls
       /\ pos' = pos + c
  /\ UNCHANGED <<key, orig, outcome, ncalls, rc4, ks, ksa, pc>>

NextObj == NewObj \/ NewOther \/ PrgaNext \/ ApplyChunk

SpecObj == InitObj /\ [][NextObj]_vars

-----------------------------------------------------------------------------
(* The keystream of a key: the bytes the first n calls of prga_next        *)
(* return on a newly scheduled object.                                     *)

PrgaStep(st) ==
  LET r == prga_next(st.rc4)
  IN  [rc4 |-> r.rc4, out |-> Append(st.out, r.k)]

RECURSIVE PrgaLoop(_, _)
PrgaLoop(st, n) ==
  IF n = 0 THEN st
  ELSE IF n = 1 THEN PrgaStep(st)
  ELSE LET low == PrgaLoop(st, n \div 2)
       IN  IF Len(low.out) \in Nat THEN PrgaLoop(low, n - (n \div 2)) ELSE low

Keystream(k, n) == PrgaLoop([rc4 |-> new(k).rc4, out |-> <<>>], n).out

-----------------------------------------------------------------------------
(* Claims about the one-shot entry point (specification Spec)              *)

(* C1: for every key of valid length and every buffer, two calls of        *)
(* apply_keystream_static in a row, each scheduling its own object from    *)
(* the key, leave the buffer exactly as it was before the first.           *)
C1_Involution ==
  (pc = "static" /\ ValidKeyLen(key) /\ ncalls = 2)
    => (outcome = "ok" /\ data = orig)

(* The test's case: "Hello World!" under the 16-byte key is back after     *)
(* the second call, and the first call had changed it.                     *)
C1_Witness ==
  /\ pc = "static" /\ ncalls = 2
  /\ key = TestKey /\ orig = TestPlaintext /\ data = orig
  /\ apply_keystream_static(key, orig).data # orig

(* C2: key scheduling, and with it apply_keystream_static, succeeds        *)
(* exactly when 5 <= Len(key) <= 256; it fails (the assert! on the key     *)
(* length) for every other length, 4 and 257 among them.                   *)
C2_KeyLengthBoundary ==
  (pc = "static" /\ ncalls >= 1) =>
    /\ outcome = "ok" <=> (5 <= Len(key) /\ Len(key) <= 256)
    /\ outcome = "panic" <=> (Len(key) < 5 \/ Len(key) > 256)
    /\ Len(key) \in {4, 257} => outcome = "panic"
    /\ Len(key) \in {5, 256} => outcome = "ok"

(* A key of 257 bytes was refused, and keys of 4, 5 and 256 bytes behave   *)
(* as the boundary says.                                                   *)
C2_Witness ==
  /\ pc = "static" /\ ncalls = 1
  /\ Len(key) = 257 /\ outcome = "panic"
  /\ ~new(PatKey(4, 1)).ok /\ new(PatKey(5, 1)).ok /\ new(PatKey(256, 1)).ok

(* C3: with a key whose length is outside 5..256, apply_keystream_static   *)
(* hands its caller an InvalidKeyLength error value and leaves the buffer  *)
(* as it was.                                                              *)
C3_ErrorSurfaced ==
  (pc = "static" /\ ncalls >= 1 /\ ~ValidKeyLen(key))
    => (outcome = "InvalidKeyLength" /\ data = orig)

(* C6: apply_keystream_static with key 01 02 03 04 05 on a zero-filled     *)
(* buffer of at least 4096 + 16 bytes leaves, at every offset the test     *)
(* lists, the 16 bytes the test expects.                                   *)
C6_KnownAnswer ==
  (pc = "static" /\ key = KatKey /\ ncalls = 1 /\ orig \in KatBuffers)
    => \A v \in KatVectors :
         SubSeq(data, v.offset + 1, v.offset + 16) = v.bytes

C6_Witness ==
  /\ pc = "static" /\ key = KatKey /\ ncalls = 1
  /\ orig = Zeros(KatLen) /\ Len(data) = KatLen
  /\ SubSeq(data, 1, 4) = <<178, 57, 99, 5>>
  /\ SubSeq(data, 4109, 4112) = <<139, 52, 216, 117>>

(* C7, as claimed: after apply_keystream_static with a valid key, every    *)
(* non-empty buffer differs from the original.                             *)
C7_NonIdentity ==
  (pc = "static" /\ ncalls = 1 /\ outcome = "ok" /\ Len(orig) > 0)
    => data # orig

(* C7, amended: after apply_keystream_static with a valid key, byte n of   *)
(* the buffer is the original byte XOR the n-th keystream byte, so the     *)
(* buffer differs from the original exactly when one of the first          *)
(* Len(buffer) keystream bytes is not 0.                                   *)
C7_DiffersUnlessZeroKeystream ==
  (pc = "static" /\ ncalls = 1 /\ outcome = "ok") =>
    LET K == Keystream(key, Len(orig))
    IN  /\ Len(data) = Len(orig)
        /\ \A n \in 1 .. Len(orig) : (data[n] # orig[n]) <=> (K[n] # 0)
        /\ (data # orig) <=> (\E n \in 1 .. Len(orig) : K[n] # 0)

(* Both cases: the key 6f 70 71 72 73, whose first two keystream bytes     *)
(* are 0, leaves a two-byte buffer as it was, and the 16-byte test key     *)
(* changes "Hello World!".                                                 *)
C7_Witness ==
  /\ pc = "static" /\ ncalls = 1 /\ outcome = "ok"
  /\ key = PatKey(5, 111) /\ Len(orig) = 2 /\ data = orig
  /\ Keystream(key, 2) = <<0, 0>>
  /\ apply_keystream_static(TestKey, TestPlaintext).data # TestPlaintext

-----------------------------------------------------------------------------
(* Claims about the table and the cursors (specification SpecSteps)        *)

Built == pc \in {"ksa", "apply", "done"}

IsPermutation(s) == DOMAIN s = Byte /\ {s[n] : n \in Byte} = Byte

(* t is s with two entries swapped (or s itself: an entry swapped with     *)
(* itself).                                                                *)
IsSwapOf(s, t) ==
  LET D == {n \in Byte : t[n] # s[n]}
  IN  \/ D = {}
      \/ \E a \in D, b \in D :
           a # b /\ D = {a, b} /\ t[a] = s[b] /\ t[b] = s[a]

(* C4: from the identity table on, through key scheduling and every call   *)
(* of prga_next, the table holds each of the values 0..255 exactly once,   *)
(* and each iteration of the scheduling loop and each call of prga_next    *)
(* changes it only by swapping two of its entries.                         *)
C4_PermutationInvariant ==
  /\ [](Built => IsPermutation(rc4.s))
  /\ [][Built => IsSwapOf(rc4.s, rc4'.s)]_vars

(* Reached after scheduling and 257 calls of prga_next. *)
C4_Witness ==
  /\ pc = "done" /\ pos = 257 /\ key = TestKey
  /\ IsPermutation(rc4.s) /\ rc4.s # Identity

(* C9: with a valid key and a buffer of N bytes, apply_keystream makes     *)
(* exactly N calls of prga_next and returns, the call never fails, the     *)
(* buffer keeps its length, the cursors, the scratch j and the table       *)
(* entries stay in 0..255, and on the new object cursor i is the number of *)
(* bytes done modulo 256: N mod 256 at the return.                         *)
C9_ApplyTotal ==
  /\ Built =>
       /\ outcome # "panic"
       /\ Len(data) = Len(orig)
       /\ rc4.i \in 0 .. 255 /\ rc4.j \in 0 .. 255
       /\ ksa.i \in 0 .. 256 /\ ksa.j \in 0 .. 255
       /\ \A n \in DOMAIN rc4.s : n \in 0 .. 255 /\ rc4.s[n] \in 0 .. 255
       /\ nprga = pos /\ Len(ks) = pos /\ pos <= Len(orig)
       /\ rc4.i = pos % 256
  /\ pc \in {"ksa", "apply"} => ENABLED NextSteps
  /\ pc = "done" =>
       /\ outcome = "ok"
       /\ nprga = Len(orig)
       /\ rc4.i = Len(orig) % 256

(* A buffer of 257 bytes: cursor i has wrapped from 255 to 0 and stands    *)
(* at 1 after 257 calls.                                                   *)
C9_Witness ==
  /\ pc = "done" /\ Len(orig) = 257 /\ nprga = 257 /\ rc4.i = 1

(* C10: the object key scheduling returns has both cursors at 0 whatever   *)
(* the loop's scratch j ended at, and it is the object Rc4::new returns;   *)
(* the first call of prga_next on it moves cursor i to 1, sets cursor j    *)
(* to the table's entry 1, swaps entries i and j and returns the entry at  *)
(* (s[i] + s[j]) mod 256 of the table after the swap.                      *)
C10_FreshCursors ==
  /\ (pc = "apply" /\ pos = 0) =>
       rc4.i = 0 /\ rc4.j = 0 /\ rc4 = new(key).rc4
  /\ (pc \in {"apply", "done"} /\ pos = 1) =>
       LET s0 == new(key).rc4.s
           s1 == [s0 EXCEPT ![1] = s0[s0[1]], ![s0[1]] = s0[1]]
       IN  /\ rc4.i = 1
           /\ rc4.j = s0[1]
           /\ rc4.s = s1
           /\ ks = <<s1[(s1[1] + s1[s0[1]]) % 256]>>

(* The test-vector key: the scratch j ended away from 0, and the first     *)
(* byte returned is b2, the first byte of the published keystream.         *)
C10_Witness ==
  /\ pc = "apply" /\ pos = 1 /\ key = KatKey
  /\ ksa.j # 0 /\ rc4.i = 1 /\ ks = <<178>>

-----------------------------------------------------------------------------
(* Claims about two objects of one key (specification SpecObj)             *)

Min(a, b) == IF a <= b THEN a ELSE b

(* C5: two objects built from the same valid key are equal, and remain     *)
(* equal whenever prga_next has been called as often on the one as         *)
(* apply_keystream has consumed bytes on the other; the n-th byte the      *)
(* first returns is the n-th byte the second XORs into its buffer,         *)
(* whatever the buffer holds.                                              *)
C5_Determinism ==
  (pc = "obj" /\ rc4 # NoRc4 /\ other # NoRc4) =>
    /\ Len(ks) = pos => rc4 = other
    /\ \A n \in 1 .. Min(Len(ks), pos) : Xor(data[n], orig[n]) = ks[n]
    /\ \A n \in 1 .. Len(ks) : ks[n] = Keystream(key, Len(ks))[n]

C5_Witness ==
  /\ pc = "obj" /\ rc4 # NoRc4 /\ other # NoRc4
  /\ orig = <<72, 255>> /\ pos = 2 /\ Len(ks) = 2
  /\ rc4 = other /\ rc4 # new(key).rc4

(* C8: applying the keystream chunk by chunk (empty chunks included)       *)
(* through one object gives, after any number of chunks, the bytes and the *)
(* object that one call of apply_keystream over the same bytes gives on a  *)
(* new object; byte n of the data is XORed with the n-th byte prga_next    *)
(* returns; bytes not yet reached are untouched; and once the whole buffer *)
(* is done it equals the result of apply_keystream_static.                 *)
C8_ChunkingEquivalence ==
  (pc = "obj" /\ other # NoRc4) =>
    LET one == apply_keystream(new(key).rc4, SubSeq(orig, 1, pos))
        K == Keystream(key, pos)
    IN  /\ SubSeq(data, 1, pos) = one.data
        /\ other = one.rc4
        /\ nprga = one.calls
        /\ Len(data) = Len(orig)
        /\ \A n \in 1 .. pos : data[n] = Xor(orig[n], K[n])
        /\ \A n \in (pos + 1) .. Len(orig) : data[n] = orig[n]
        /\ pos = Len(orig) => data = apply_keystream_static(key, orig).data

(* "Hello World!", 12 bytes, done in chunks of at most MaxChunk bytes. *)
C8_Witness ==
  /\ pc = "obj" /\ other # NoRc4
  /\ key = TestKey /\ orig = TestPlaintext /\ pos = Len(orig)
  /\ data = apply_keystream_static(key, orig).data /\ data # orig

====
